---- MODULE Spec2Model ----
(***************************************************************************)
(* State-machine model of binja_explain_instruction/__init__.py:           *)
(* the module globals `arch` and                                           *)
(* `architecture_specific_explanation_function`, init_plugin(bv), and the  *)
(* menu callback explain_instruction(bv, addr) that fills the fields of    *)
(* the explanation window and calls show().                                *)
(*                                                                         *)
(* One invocation is a sequence of steps, one per statement group of the   *)
(* callback; a step that calls a collaborator may end in an exception,     *)
(* which explain_instruction does not catch (except where the source has   *)
(* a try block: lines 71-74 and 105-108).                                  *)
(***************************************************************************)
EXTENDS Integers, Sequences, FiniteSets, TLC

\* ------------------------------------------------------------------ bounds
\* Longest IL sequence the host returns for one instruction.
MaxIL == 3
\* Longest list of lines an architecture module returns.
MaxLines == 2
\* Number of invocations in one session.
MaxCalls == 3
\* Number of threads that may run the callback (only thread 1 runs in Spec).
NThreads == 2

Threads == 1..NThreads
MainThread == 1

\* ------------------------------------------------------- values and inputs
None == "None"
Placeholder == "placeholder"

\* Architecture names the host may report (bv.arch.name).
ArchNames == {"x86_64", "mipsel32", "riscv"}

\* Addresses the callback is invoked on.
Addrs == {15, 16}

\* The prefix of length n of the statements base+1, base+2, ...: a statement
\* is named by its instr_index.
Stmts(base, n) == [i \in 1..n |-> base + i]

\* ----------------------------------------------------------------- the host
\* What the host answers is fixed by the binary (one per architecture name)
\* and the address.  Shape(name, addr) picks one of four kinds of
\* instruction, so that two architectures and two addresses meet all four.
Shape(name, addr) == (addr + Len(name)) % 4

\* inst_in_func: the disassembly text of the instruction.
inst_in_func(name, addr) ==
    CASE Shape(name, addr) = 0 -> "cmp eax, ebx"
      [] Shape(name, addr) = 1 -> "lock cmpxchg"
      [] Shape(name, addr) = 2 -> "nop"
      [] OTHER -> "beq $t0, $t1, loop"

\* find_lifted_il: lifted IL statements 1, 2, ...
find_lifted_il(name, addr) ==
    CASE Shape(name, addr) = 0 -> Stmts(0, MaxIL)
      [] Shape(name, addr) = 1 -> Stmts(0, MaxIL - 1)
      [] Shape(name, addr) = 2 -> << >>
      [] OTHER -> Stmts(0, 1)

\* find_llil: low level IL statements 11, 12, ...; none for a compare.
find_llil(name, addr) ==
    CASE Shape(name, addr) = 0 -> << >>
      [] Shape(name, addr) = 1 -> Stmts(10, MaxIL)
      [] Shape(name, addr) = 2 -> << >>
      [] OTHER -> Stmts(10, 1)

\* find_mlil: medium level IL statements 21, 22, ...
find_mlil(name, addr) ==
    CASE Shape(name, addr) = 0 -> << >>
      [] Shape(name, addr) = 1 -> Stmts(20, MaxIL - 1)
      [] Shape(name, addr) = 2 -> << >>
      [] OTHER -> Stmts(20, 1)

\* ------------------------------------------------------------ collaborators
\* "sub" in s, with Python's semantics for str.__contains__.
Contains(sub, s) ==
    \E i \in 1..(Len(s) - Len(sub) + 1) : SubSeq(s, i, i + Len(sub) - 1) = sub

\* SelectModule with the final `else: raise` replaced by a default module.
SelectModuleWithDefault(name) ==
    IF Contains("x86", name) THEN "x86"
    ELSE IF Contains("mips", name) THEN "mips"
    ELSE IF Contains("aarch64", name) THEN "aarch64"
    ELSE IF Contains("arm", name) \/ Contains("thumb", name) THEN "ual"
    ELSE IF Contains("6502", name) THEN "asm6502"
    ELSE IF Contains("msp430", name) THEN "msp430"
    ELSE "powerpc"

\* SelectModule with the mips test ahead of the x86 test.
SelectModuleMipsFirst(name) ==
    IF Contains("mips", name) THEN "mips"
    ELSE IF Contains("x86", name) THEN "x86"
    ELSE IF Contains("aarch64", name) THEN "aarch64"
    ELSE IF Contains("arm", name) \/ Contains("thumb", name) THEN "ual"
    ELSE IF Contains("6502", name) THEN "asm6502"
    ELSE IF Contains("msp430", name) THEN "msp430"
    ELSE IF Contains("powerpc", name) THEN "powerpc"
    ELSE None

\* The if/elif chain of init_plugin: the module imported for an architecture
\* name, or None where the chain ends in `raise TypeError`.
SelectModule(name) ==
    IF Contains("x86", name) THEN "x86"
    ELSE IF Contains("mips", name) THEN "mips"
    ELSE IF Contains("aarch64", name) THEN "aarch64"
    ELSE IF Contains("arm", name) \/ Contains("thumb", name) THEN "ual"
    ELSE IF Contains("6502", name) THEN "asm6502"
    ELSE IF Contains("msp430", name) THEN "msp430"
    ELSE IF Contains("powerpc", name) THEN "powerpc"
    ELSE None

\* Python's hex() on a non-negative integer: "0x" and the digits, most
\* significant first, with no leading zero.
HexDigit(d) == SubSeq("0123456789abcdef", d + 1, d + 1)
RECURSIVE HexDigits(_)
HexDigits(n) == IF n < 16 THEN HexDigit(n) ELSE HexDigits(n \div 16) \o HexDigit(n % 16)
Hex(n) == "0x" \o HexDigits(n)

\* The text assigned to the window's instruction field (line 72).
InstructionText(addr, instruction) == Hex(addr) \o ":  " \o instruction

\* ParseSource without the fallback to lifted IL.
ParseSourceLlilOnly(llil_list, lifted_il_list) == llil_list

\* The IL sequence handed to fold_multi_il (line 62).
ParseSource(llil_list, lifted_il_list) ==
    IF Len(llil_list) > 0 THEN llil_list ELSE lifted_il_list

\* fold_multi_il: a statement that only sets a temporary is merged with the
\* statement that follows it; every other statement passes through as a unit
\* of its own.  A unit is the sequence of the statements it stands for.
TempStmts == {2, 11}
RECURSIVE fold_multi_il(_)
fold_multi_il(seq) ==
    IF Len(seq) = 0 THEN << >>
    ELSE IF Len(seq) >= 2 /\ seq[1] \in TempStmts
         THEN << <<seq[1], seq[2]>> >> \o fold_multi_il(SubSeq(seq, 3, Len(seq)))
         ELSE << <<seq[1]>> >> \o fold_multi_il(Tail(seq))

\* explain_llil: one explanation line for one folded unit.
explain_llil(unit) == [src |-> "il", of |-> unit]

\* dereference_symbols: the statement's text with the name of the symbol at
\* the literal it mentions, when there is one.
SymbolAt(stmt) == IF stmt % 10 = 1 THEN "main" ELSE None
dereference_symbols(stmt) == [text |-> stmt, symbol |-> SymbolAt(stmt)]

\* The override lines a module can return: the placeholder returns its one
\* fixed line, a module returns up to MaxLines lines of its own.
ModuleLines(fn) == {[i \in 1..n |-> [src |-> fn, of |-> <<i>>]] : n \in 0..MaxLines}
OverrideResults(fn) ==
    IF fn = Placeholder
    THEN {[supersede |-> FALSE, lines |-> << [src |-> Placeholder, of |-> <<1>>] >>]}
    ELSE {[supersede |-> s, lines |-> l] : s \in BOOLEAN, l \in ModuleLines(fn)}

\* Flags the host reports for a lifted IL instruction index.
FlagsRead(idx) == IF idx % 2 = 0 THEN {"z"} ELSE {}
FlagsWritten(idx) == IF idx % 2 = 1 THEN {"c", "z"} ELSE {}

\* get_state: instruction state is supported for some architectures only;
\* for the others get_state raises AttributeError.
StateSupported(name) == Contains("x86", name)
StateValue(name, addr) == [arch |-> name, at |-> addr]

\* Description with the supersede flag ignored: the IL lines always follow.
DescriptionAlwaysAppends(should_supersede_llil, explanation_list, parse_il) ==
    explanation_list \o [i \in 1..Len(parse_il) |-> explain_llil(parse_il[i])]

\* Description with the override lines after the IL lines instead of before.
DescriptionOverrideLast(should_supersede_llil, explanation_list, parse_il) ==
    IF Len(explanation_list) > 0 /\ should_supersede_llil
    THEN explanation_list
    ELSE [i \in 1..Len(parse_il) |-> explain_llil(parse_il[i])] \o explanation_list

\* The description assigned in lines 76-88 from the override result and the
\* folded units.
Description(should_supersede_llil, explanation_list, parse_il) ==
    IF Len(explanation_list) > 0
    THEN IF should_supersede_llil
         THEN explanation_list
         ELSE explanation_list \o [i \in 1..Len(parse_il) |-> explain_llil(parse_il[i])]
    ELSE [i \in 1..Len(parse_il) |-> explain_llil(parse_il[i])]

\* The llil and mlil display lists (lines 91-92).
Dereferenced(il_list) == [i \in 1..Len(il_list) |-> dereference_symbols(il_list[i])]

\* FlagTriples with the read and written sets in each other's place.
FlagTriplesSwapped(lifted_il_list) ==
    [i \in 1..Len(lifted_il_list) |->
        <<FlagsWritten(lifted_il_list[i]), FlagsRead(lifted_il_list[i]), lifted_il_list[i]>>]

\* The flags triples (lines 95-102).
FlagTriples(lifted_il_list) ==
    [i \in 1..Len(lifted_il_list) |->
        <<FlagsRead(lifted_il_list[i]), FlagsWritten(lifted_il_list[i]), lifted_il_list[i]>>]

\* ------------------------------------------------------------------- state
VARIABLES
    arch,        \* module global `arch`: the architecture name last selected
    explain_fn,  \* module global architecture_specific_explanation_function
    win,         \* the fields of the object explain_window() returns
    pc,          \* pc[t]: the statement thread t's invocation is at
    frame,       \* frame[t]: the arguments and locals of thread t's invocation
    hist,        \* hist[t]: what thread t's invocation has done so far
    calls        \* the number of invocations started

vars == <<arch, explain_fn, win, pc, frame, hist, calls>>

Unset == "unset"

\* A window field holds NoValue until it is assigned, then Some(value).
NoValue == << >>
Some(value) == <<value>>

\* The window before anything was assigned to it.
EmptyWindow ==
    [instruction |-> NoValue, description |-> NoValue, llil |-> NoValue, mlil |-> NoValue,
     flags |-> NoValue, state |-> NoValue, get_doc_url |-> NoValue,
     visible |-> FALSE]

\* Arguments and locals of an invocation that has assigned none of them.
NewFrame(name, addr) ==
    [name |-> name, addr |-> addr, module |-> Unset, instruction |-> Unset,
     lifted_il_list |-> Unset, llil_list |-> Unset, mlil_list |-> Unset,
     parse_il |-> Unset, should_supersede_llil |-> Unset, explanation_list |-> Unset]

\* outcome: "none" (no invocation yet), "running", "shown" (returned after
\* show()), "unsupported" (TypeError of init_plugin), "error" (any other
\* exception that left explain_instruction).
NewHist(outcome) ==
    [outcome |-> outcome,
     changed |-> {},           \* the window fields it assigned a new value to
     steps |-> {},             \* the statements executed so far
     selected |-> FALSE,       \* init_plugin took the branch of line 25
     fold_arg |-> Unset,       \* the sequence fold_multi_il was called with
     called |-> Unset,         \* the function called at line 66
     logged |-> FALSE,         \* log_error was called (line 108)
     raised_at |-> Unset]      \* the statement whose exception ended it

Init ==
    /\ arch = None
    /\ explain_fn = Placeholder
    /\ win = EmptyWindow
    /\ pc = [t \in Threads |-> "idle"]
    /\ frame = [t \in Threads |-> NewFrame(Unset, Unset)]
    /\ hist = [t \in Threads |-> NewHist("none")]
    /\ calls = 0

\* ----------------------------------------------------------------- actions
Goto(t, label) == pc' = [pc EXCEPT ![t] = label]
Did(t, step) == [hist[t] EXCEPT !.steps = @ \cup {step}]

\* Thread t's statement `step` assigns `value` to the window's `field`.  A
\* field is assigned at most once in an invocation, so the value it replaces
\* is the one the field had when the invocation started (with one thread).
Assign(t, step, field, value) ==
    /\ win' = [win EXCEPT ![field] = Some(value)]
    /\ hist' = [hist EXCEPT ![t] = [Did(t, step) EXCEPT
                    !.changed = IF win[field] = Some(value) THEN @ ELSE @ \cup {field}]]

\* The host invokes the registered command: explain_instruction(bv, addr),
\* on a binary of one of `names` at one of `addrs`.
CallOn(t, names, addrs) ==
    /\ pc[t] = "idle"
    /\ calls < MaxCalls
    /\ calls' = calls + 1
    /\ \E name \in names, addr \in addrs :
          frame' = [frame EXCEPT ![t] = NewFrame(name, addr)]
    /\ hist' = [hist EXCEPT ![t] = NewHist("running")]
    /\ Goto(t, "init_plugin")
    /\ UNCHANGED <<arch, explain_fn, win>>

Call(t) == CallOn(t, ArchNames, Addrs)

\* Line 25: if bv.arch.name != arch.
InitPlugin(t) ==
    /\ pc[t] = "init_plugin"
    /\ IF frame[t].name # arch
       THEN /\ Goto(t, "select")
            /\ hist' = [hist EXCEPT ![t] = [Did(t, "init_plugin") EXCEPT !.selected = TRUE]]
       ELSE /\ Goto(t, "fetch")
            /\ hist' = [hist EXCEPT ![t] = Did(t, "init_plugin")]
    /\ UNCHANGED <<arch, explain_fn, win, frame, calls>>

\* Lines 26-40: the import of the matching architecture module.
Select(t) ==
    /\ pc[t] = "select"
    /\ SelectModule(frame[t].name) # None
    /\ frame' = [frame EXCEPT ![t].module = SelectModule(frame[t].name)]
    /\ hist' = [hist EXCEPT ![t] = Did(t, "select")]
    /\ Goto(t, "set_doc_url")
    /\ UNCHANGED <<arch, explain_fn, win, calls>>

\* Lines 41-42: raise TypeError("Could not identify architecture type!").
SelectRaise(t) ==
    /\ pc[t] = "select"
    /\ SelectModule(frame[t].name) = None
    /\ hist' = [hist EXCEPT ![t] = [Did(t, "select") EXCEPT
                    !.outcome = "unsupported", !.raised_at = "select"]]
    /\ Goto(t, "idle")
    /\ UNCHANGED <<arch, explain_fn, win, frame, calls>>

\* Line 44: explain_window().get_doc_url = get_doc_url.
SetDocUrl(t) ==
    /\ pc[t] = "set_doc_url"
    /\ Assign(t, "set_doc_url", "get_doc_url",
              frame[t].module)
    /\ Goto(t, "set_function")
    /\ UNCHANGED <<arch, explain_fn, frame, calls>>

\* SetFunction without the `global` declaration: the assignment binds a
\* local name and the module global keeps its value.
SetFunctionLocal(t) ==
    /\ pc[t] = "set_function"
    /\ hist' = [hist EXCEPT ![t] = Did(t, "set_function")]
    /\ Goto(t, "set_arch")
    /\ UNCHANGED <<arch, explain_fn, win, frame, calls>>

\* Line 45: architecture_specific_explanation_function = explain.arch_explain_instruction.
SetFunction(t) ==
    /\ pc[t] = "set_function"
    /\ explain_fn' = frame[t].module
    /\ hist' = [hist EXCEPT ![t] = Did(t, "set_function")]
    /\ Goto(t, "set_arch")
    /\ UNCHANGED <<arch, win, frame, calls>>

\* Line 46: arch = bv.arch.name.
SetArch(t) ==
    /\ pc[t] = "set_arch"
    /\ arch' = frame[t].name
    /\ hist' = [hist EXCEPT ![t] = Did(t, "set_arch")]
    /\ Goto(t, "fetch")
    /\ UNCHANGED <<explain_fn, win, frame, calls>>

\* Lines 54-58: the instruction and its three IL sequences, from the host.
Fetch(t) ==
    /\ pc[t] = "fetch"
    /\ Goto(t, "fold")
    /\ LET name == frame[t].name
           addr == frame[t].addr
       IN frame' = [frame EXCEPT ![t].instruction = inst_in_func(name, addr),
                                 ![t].lifted_il_list = find_lifted_il(name, addr),
                                 ![t].llil_list = find_llil(name, addr),
                                 ![t].mlil_list = find_mlil(name, addr)]
    /\ hist' = [hist EXCEPT ![t] = Did(t, "fetch")]
    /\ UNCHANGED <<arch, explain_fn, win, calls>>

\* Line 62: parse_il = fold_multi_il(bv, llil_list if len(llil_list) > 0 else lifted_il_list).
Fold(t) ==
    /\ pc[t] = "fold"
    /\ Goto(t, "override")
    /\ LET source == ParseSource(frame[t].llil_list, frame[t].lifted_il_list)
       IN /\ frame' = [frame EXCEPT ![t].parse_il = fold_multi_il(source)]
          /\ hist' = [hist EXCEPT ![t] = [Did(t, "fold") EXCEPT !.fold_arg = source]]
    /\ UNCHANGED <<arch, explain_fn, win, calls>>

\* Lines 66-68: the call of architecture_specific_explanation_function, read
\* from the module global at the time of the call.
Override(t) ==
    /\ pc[t] = "override"
    /\ Goto(t, "instruction")
    /\ \E r \in OverrideResults(explain_fn) :
          frame' = [frame EXCEPT ![t].should_supersede_llil = r.supersede,
                                 ![t].explanation_list = r.lines]
    /\ hist' = [hist EXCEPT ![t] = [Did(t, "override") EXCEPT !.called = explain_fn]]
    /\ UNCHANGED <<arch, explain_fn, win, calls>>

\* Lines 71-72: explain_window().instruction = f"{hex(addr)...}:  {instruction}".
SetInstruction(t) ==
    /\ pc[t] = "instruction"
    /\ Assign(t, "instruction", "instruction",
              InstructionText(frame[t].addr, frame[t].instruction))
    /\ Goto(t, "description")
    /\ UNCHANGED <<arch, explain_fn, frame, calls>>

\* Lines 73-74: the assignment raised an Exception; the traceback is printed
\* and the callback goes on.
SetInstructionFails(t) ==
    /\ pc[t] = "instruction"
    /\ hist' = [hist EXCEPT ![t] = Did(t, "instruction_failed")]
    /\ Goto(t, "description")
    /\ UNCHANGED <<arch, explain_fn, win, frame, calls>>

\* SetDescription that goes straight on to show().
SetDescriptionThenShow(t) ==
    /\ pc[t] = "description"
    /\ Assign(t, "description", "description",
              Description(frame[t].should_supersede_llil, frame[t].explanation_list, frame[t].parse_il))
    /\ Goto(t, "show")
    /\ UNCHANGED <<arch, explain_fn, frame, calls>>

\* Lines 76-88: explain_window().description = ...
SetDescription(t) ==
    /\ pc[t] = "description"
    /\ Assign(t, "description", "description",
              Description(frame[t].should_supersede_llil, frame[t].explanation_list, frame[t].parse_il))
    /\ Goto(t, "llil")
    /\ UNCHANGED <<arch, explain_fn, frame, calls>>

\* SetLlil showing the sequence that was folded, lifted IL included.
SetLlilFromParseSource(t) ==
    /\ pc[t] = "llil"
    /\ Assign(t, "llil", "llil",
              Dereferenced(ParseSource(frame[t].llil_list, frame[t].lifted_il_list)))
    /\ Goto(t, "mlil")
    /\ UNCHANGED <<arch, explain_fn, frame, calls>>

\* Line 91: explain_window().llil = [dereference_symbols(bv, llil) for llil in llil_list].
SetLlil(t) ==
    /\ pc[t] = "llil"
    /\ Assign(t, "llil", "llil",
              Dereferenced(frame[t].llil_list))
    /\ Goto(t, "mlil")
    /\ UNCHANGED <<arch, explain_fn, frame, calls>>

\* Line 92: explain_window().mlil = [dereference_symbols(bv, mlil) for mlil in mlil_list].
SetMlil(t) ==
    /\ pc[t] = "mlil"
    /\ Assign(t, "mlil", "mlil",
              Dereferenced(frame[t].mlil_list))
    /\ Goto(t, "flags")
    /\ UNCHANGED <<arch, explain_fn, frame, calls>>

\* Lines 95-102: explain_window().flags = [(read, written, lifted) ...].
SetFlags(t) ==
    /\ pc[t] = "flags"
    /\ Assign(t, "flags", "flags",
              FlagTriples(frame[t].lifted_il_list))
    /\ Goto(t, "state")
    /\ UNCHANGED <<arch, explain_fn, frame, calls>>

\* Lines 105-106: explain_window().state = get_state(bv, addr).
SetState(t) ==
    /\ pc[t] = "state"
    /\ StateSupported(frame[t].name)
    /\ Assign(t, "state", "state",
              StateValue(frame[t].name, frame[t].addr))
    /\ Goto(t, "show")
    /\ UNCHANGED <<arch, explain_fn, frame, calls>>

\* Lines 107-108: get_state raised AttributeError; log_error, nothing assigned.
StateUnavailable(t) ==
    /\ pc[t] = "state"
    /\ ~StateSupported(frame[t].name)
    /\ hist' = [hist EXCEPT ![t] = [Did(t, "state_unavailable") EXCEPT !.logged = TRUE]]
    /\ Goto(t, "show")
    /\ UNCHANGED <<arch, explain_fn, win, frame, calls>>

\* Line 110: explain_window().show(); the callback returns.
Show(t) ==
    /\ pc[t] = "show"
    /\ win' = [win EXCEPT !.visible = TRUE]
    /\ hist' = [hist EXCEPT ![t] = [Did(t, "show") EXCEPT !.outcome = "shown"]]
    /\ Goto(t, "idle")
    /\ UNCHANGED <<arch, explain_fn, frame, calls>>

\* The statements that read or call a collaborator (the host's view, an
\* imported module, the window, a helper) and whose exception no try block
\* catches: the exception leaves explain_instruction (one raised in
\* init_plugin leaves through line 51) with nothing more assigned.
\*   "init_plugin"   bv.arch.name raises at line 25 (a view with no arch)
\*   "select"        a read of bv.arch.name in the if/elif chain or the
\*                   import of lines 27-40 raises (ImportError)
\*   "set_doc_url"   explain_window() or the assignment of line 44 raises
\*   "set_function"  explain.arch_explain_instruction raises at line 45,
\*                   after line 44 has assigned the documentation link
\*   "set_arch"      bv.arch.name raises at line 46, after lines 44-45
\*   "instruction"   line 72 raises something that is not an Exception
\*   "state"         get_state raises something other than AttributeError
\*   "show"          show() raises (line 110): the window is not shown
RaisingSteps ==
    {"init_plugin", "select", "set_doc_url", "set_function", "set_arch", "fetch", "fold",
     "override", "instruction", "description", "llil", "mlil", "flags", "state", "show"}

Raise(t) ==
    /\ pc[t] \in RaisingSteps
    /\ hist' = [hist EXCEPT ![t] = [hist[t] EXCEPT !.outcome = "error", !.raised_at = pc[t]]]
    /\ Goto(t, "idle")
    /\ UNCHANGED <<arch, explain_fn, win, frame, calls>>

\* The statements of an invocation under way.
Run(t) ==
    \/ InitPlugin(t)
    \/ Select(t)
    \/ SelectRaise(t)
    \/ SetDocUrl(t)
    \/ SetFunction(t)
    \/ SetArch(t)
    \/ Fetch(t)
    \/ Fold(t)
    \/ Override(t)
    \/ SetInstruction(t)
    \/ SetInstructionFails(t)
    \/ SetDescription(t)
    \/ SetLlil(t)
    \/ SetMlil(t)
    \/ SetFlags(t)
    \/ SetState(t)
    \/ StateUnavailable(t)
    \/ Show(t)
    \/ Raise(t)

\* The plugin as the host runs it: one invocation at a time, on one thread.
Next == Call(MainThread) \/ Run(MainThread)

Spec == Init /\ [][Next]_vars

\* The same plugin, with the interpreter going on with an invocation under
\* way: explain_instruction is straight-line code, its only loops run over
\* the finite IL lists, and every call it makes returns or raises.
SpecFair == Init /\ [][Next]_vars /\ WF_pc(Run(MainThread))

\* The plugin run on binaries whose architecture names contain several of
\* the substrings init_plugin tests for, one of them or none.
SelectNames ==
    {"mips-x86", "aarch64-mips", "thumb2-aarch64", "6502-arm", "msp430-6502",
     "powerpc-msp430", "powerpc", "riscv"}

NextSelect == CallOn(MainThread, SelectNames, {15}) \/ Run(MainThread)

SpecSelect == Init /\ [][NextSelect]_vars

\* The callback entered from several host threads, one invocation on each,
\* at the same address of the binary each thread has open: the statements of
\* the invocations interleave, and nothing in the source orders them.
FirstCall(t) == hist[t].outcome = "none" /\ CallOn(t, ArchNames, {15})

NextConcurrent == \E t \in Threads : FirstCall(t) \/ Run(t)

SpecConcurrent == Init /\ [][NextConcurrent]_vars

\* ------------------------------------------------------------ properties
\* Thread t's invocation has executed the statement named `step`.
Reached(t, step) == step \in hist[t].steps

\* The explainer's output over the folded units of thread t's invocation.
ExplainerLines(t) ==
    [i \in 1..Len(frame[t].parse_il) |-> [src |-> "il", of |-> frame[t].parse_il[i]]]

\* A description line produced by the IL explainer.
IsILLine(line) == line.src = "il"

\* C1 as stated: for every override result (true, L), the description handed
\* to the window is exactly L.
C1_Original ==
    \A t \in Threads :
        (Reached(t, "description") /\ frame[t].should_supersede_llil)
            => win.description = Some(frame[t].explanation_list)

\* C1 (amended): for every override result (true, L) with L non-empty the
\* description is exactly L and holds no IL-derived line; for (true, [])
\* the description is the explainer's output over the folded units.
C1_Supersede ==
    \A t \in Threads :
        (Reached(t, "description") /\ frame[t].should_supersede_llil)
            => /\ Len(frame[t].explanation_list) > 0
                    => /\ win.description = Some(frame[t].explanation_list)
                       /\ \A i \in 1..Len(win.description[1]) :
                              ~IsILLine(win.description[1][i])
               /\ Len(frame[t].explanation_list) = 0
                    => win.description = Some(ExplainerLines(t))

\* An invocation whose override returned (true, L), L non-empty, for an
\* instruction with folded units to explain, has assigned L alone.
C1_Witness ==
    \E t \in Threads :
        /\ Reached(t, "description")
        /\ frame[t].should_supersede_llil
        /\ Len(frame[t].explanation_list) > 0
        /\ Len(frame[t].parse_il) > 0
        /\ win.description = Some(frame[t].explanation_list)

\* C2: for every override result (false, L) the description is L followed by
\* the explainer's lines, one per folded unit in folded order; with L empty
\* it is the explainer's lines alone.
C2_Prepend ==
    \A t \in Threads :
        (Reached(t, "description") /\ ~frame[t].should_supersede_llil)
            => LET L == frame[t].explanation_list
                   D == win.description[1]
               IN /\ win.description # NoValue
                  /\ Len(D) = Len(L) + Len(frame[t].parse_il)
                  /\ \A i \in 1..Len(L) : D[i] = L[i]
                  /\ \A i \in 1..Len(frame[t].parse_il) :
                         D[Len(L) + i] = [src |-> "il", of |-> frame[t].parse_il[i]]
                  /\ Len(L) = 0 => D = ExplainerLines(t)

\* An invocation whose override returned (false, L), L non-empty, over at
\* least two folded units, has assigned its description.
C2_Witness ==
    \E t \in Threads :
        /\ Reached(t, "description")
        /\ ~frame[t].should_supersede_llil
        /\ Len(frame[t].explanation_list) > 0
        /\ Len(frame[t].parse_il) >= 2
        /\ Len(win.description[1]) = Len(frame[t].explanation_list) + Len(frame[t].parse_il)

\* C3: fold_multi_il receives the low-level IL whenever it is non-empty and
\* the lifted IL exactly when the low-level IL is empty; it never receives
\* an empty sequence while the lifted IL is non-empty.
C3_ILSource ==
    \A t \in Threads :
        Reached(t, "fold")
            => /\ Len(frame[t].llil_list) > 0 => hist[t].fold_arg = frame[t].llil_list
               /\ Len(frame[t].llil_list) = 0 => hist[t].fold_arg = frame[t].lifted_il_list
               /\ Len(frame[t].lifted_il_list) > 0 => Len(hist[t].fold_arg) > 0

\* A compare: no low-level IL, some lifted IL, and the fold was called with
\* the lifted IL.
C3_Witness ==
    \E t \in Threads :
        /\ Reached(t, "fold")
        /\ Len(frame[t].llil_list) = 0
        /\ Len(frame[t].lifted_il_list) > 0
        /\ hist[t].fold_arg = frame[t].lifted_il_list

\* The substrings init_plugin tests the architecture name for.
RegisteredSubstrings == {"x86", "mips", "aarch64", "arm", "thumb", "6502", "msp430", "powerpc"}
Unregistered(name) == \A sub \in RegisteredSubstrings : ~Contains(sub, name)

\* C4: an invocation on an architecture name that matches no registered
\* substring runs no fetch, fold, override or explain step, writes no field
\* of the window and does not call show(); it ends with the
\* unsupported-architecture error whenever the host reported the name to
\* every read of lines 25-38 (a read that raises ends it at that read).
C4_Unsupported ==
    \A t \in Threads :
        (hist[t].outcome # "none" /\ Unregistered(frame[t].name))
            => /\ hist[t].steps \subseteq {"init_plugin", "select"}
               /\ hist[t].changed = {}
               /\ hist[t].outcome \in {"running", "unsupported", "error"}
               /\ hist[t].outcome = "error" => hist[t].raised_at \in {"init_plugin", "select"}
               /\ (pc[t] = "idle" /\ Reached(t, "select")) => hist[t].outcome = "unsupported"

\* An invocation has ended with the unsupported-architecture error while the
\* window shows the bundle of an earlier invocation.
C4_Witness ==
    \E t \in Threads :
        /\ Unregistered(frame[t].name)
        /\ hist[t].outcome = "unsupported"
        /\ win.visible
        /\ hist[t].changed = {}

\* C5 as stated: init_plugin selects a module exactly when the invocation's
\* architecture name differs from the cached one, and the override function
\* an invocation calls is the one of its own architecture name.
C5_Original ==
    \A t \in Threads :
        /\ (Reached(t, "init_plugin") /\ ~hist[t].selected) => arch = frame[t].name
        /\ (hist[t].selected /\ ~Reached(t, "set_arch")) => arch # frame[t].name
        /\ Reached(t, "override") => hist[t].called = SelectModule(frame[t].name)

\* The fields of the window that make up the displayed bundle.
BundleFields == {"instruction", "description", "llil", "mlil", "flags", "state"}

\* The instruction text of thread t's invocation.
OwnInstruction(t) == Some(InstructionText(frame[t].addr, frame[t].instruction))

\* C6 as stated: an invocation that fails at any step leaves every field of
\* the bundle displayed before it exactly as it was when it started.
C6_Original ==
    \A t \in Threads :
        (win.visible /\ hist[t].outcome \in {"error", "unsupported"})
            => hist[t].changed \cap BundleFields = {}

\* C7 as stated: only the unsupported-architecture error ends an invocation
\* without show(), and the bundle shown carries the instruction text of the
\* invocation that showed it.
C7_Original ==
    \A t \in Threads :
        (pc[t] = "idle" /\ hist[t].outcome # "none")
            => /\ hist[t].outcome \in {"shown", "unsupported"}
               /\ hist[t].outcome = "unsupported" => Unregistered(frame[t].name)
               /\ hist[t].outcome = "shown" => win.instruction = OwnInstruction(t)

\* C8, for the invocations that reach show() (the claim says all do): with
\* both the low-level and the lifted IL empty, the description shown is the
\* empty list, next to the instruction text the invocation assigned.
C8_Original ==
    \A t \in Threads :
        (/\ hist[t].outcome = "shown"
         /\ Len(frame[t].llil_list) = 0
         /\ Len(frame[t].lifted_il_list) = 0)
            => /\ win.description = Some(<< >>)
               /\ Reached(t, "instruction") => win.instruction = OwnInstruction(t)

\* C9, for the fields the invocation assigned: when get_state signals that
\* state is unsupported, the warning is logged, show() is called with this
\* invocation's description, llil, mlil and flags, and the state field of
\* the bundle shown holds no state value.
C9_Original ==
    \A t \in Threads :
        (hist[t].outcome = "shown" /\ Reached(t, "state_unavailable"))
            => /\ hist[t].logged
               /\ Reached(t, "instruction") => win.instruction = OwnInstruction(t)
               /\ win.description # NoValue
               /\ win.llil = Some(Dereferenced(frame[t].llil_list))
               /\ win.mlil = Some(Dereferenced(frame[t].mlil_list))
               /\ win.flags = Some(FlagTriples(frame[t].lifted_il_list))
               /\ win.state = NoValue

\* C10 as stated, under interleaved invocations: every invocation calls the
\* override function of its own architecture.
C10_Original ==
    \A t \in Threads :
        Reached(t, "override") => hist[t].called = SelectModule(frame[t].name)

\* The bundle thread t's invocation shows when it is the first invocation
\* of a session: the fields it assigned hold its own values and the fields
\* it did not assign hold nothing.  It is a function of the invocation's
\* arguments and of what its collaborators answered, and of nothing earlier.
FreshBundle(t) ==
    [instruction |-> IF Reached(t, "instruction") THEN OwnInstruction(t) ELSE NoValue,
     description |-> Some(Description(frame[t].should_supersede_llil,
                                      frame[t].explanation_list, frame[t].parse_il)),
     llil |-> Some(Dereferenced(frame[t].llil_list)),
     mlil |-> Some(Dereferenced(frame[t].mlil_list)),
     flags |-> Some(FlagTriples(frame[t].lifted_il_list)),
     state |-> IF Reached(t, "state") THEN Some(StateValue(frame[t].name, frame[t].addr))
               ELSE NoValue]

\* C11 as stated: the bundle an invocation shows is the same whatever
\* invocations preceded it, so it is the bundle the same invocation shows as
\* the first of a session.
C11_Original ==
    \A t \in Threads :
        hist[t].outcome = "shown"
            => \A f \in BundleFields : win[f] = FreshBundle(t)[f]

\* C12: once written, the llil field is the dereferenced image of the
\* low-level IL sequence as fetched, one entry per statement in order, and
\* the mlil field that of the mid-level sequence, each from its own
\* sequence; writing them leaves the description as the merge wrote it; and
\* with no low-level IL the llil field is the empty list, never lifted IL.
C12_Dereference ==
    \A t \in Threads :
        /\ Reached(t, "llil")
              => /\ win.llil # NoValue
                 /\ Len(win.llil[1]) = Len(frame[t].llil_list)
                 /\ \A i \in 1..Len(frame[t].llil_list) :
                        win.llil[1][i] = dereference_symbols(frame[t].llil_list[i])
                 /\ Len(frame[t].llil_list) = 0 => win.llil = Some(<< >>)
                 /\ win.description = Some(Description(frame[t].should_supersede_llil,
                                                       frame[t].explanation_list,
                                                       frame[t].parse_il))
        /\ Reached(t, "mlil")
              => /\ win.mlil # NoValue
                 /\ Len(win.mlil[1]) = Len(frame[t].mlil_list)
                 /\ \A i \in 1..Len(frame[t].mlil_list) :
                        win.mlil[1][i] = dereference_symbols(frame[t].mlil_list[i])

\* A compare explained from its lifted IL: the description holds the lines
\* of the lifted units and the llil field written after it is empty.
C12_Witness ==
    \E t \in Threads :
        /\ Reached(t, "mlil")
        /\ Len(frame[t].llil_list) = 0
        /\ Len(frame[t].lifted_il_list) > 0
        /\ hist[t].fold_arg = frame[t].lifted_il_list
        /\ win.llil = Some(<< >>)
        /\ Len(win.description[1]) > 0

\* C13: once written, the flags field holds one triple per lifted IL
\* statement, in lifted IL order: the flags the host reports as read by that
\* statement, the flags it reports as written, and the statement; whichever
\* sequence was folded and whatever the override returned.
C13_FlagTriples ==
    \A t \in Threads :
        Reached(t, "flags")
            => /\ win.flags # NoValue
               /\ Len(win.flags[1]) = Len(frame[t].lifted_il_list)
               /\ \A i \in 1..Len(frame[t].lifted_il_list) :
                      LET lifted == frame[t].lifted_il_list[i]
                      IN win.flags[1][i] = <<FlagsRead(lifted), FlagsWritten(lifted), lifted>>

\* An invocation explained from lifted IL whose override superseded the IL
\* explanation has written the triples of its lifted statements.
C13_Witness ==
    \E t \in Threads :
        /\ Reached(t, "flags")
        /\ Len(frame[t].llil_list) = 0
        /\ Len(frame[t].lifted_il_list) > 0
        /\ frame[t].should_supersede_llil
        /\ Len(frame[t].explanation_list) > 0
        /\ win.description = Some(frame[t].explanation_list)
        /\ Len(win.flags[1]) = Len(frame[t].lifted_il_list)

\* The statements of an invocation in program order, and the stages of the
\* pipeline they belong to: SelectArchitecture, FetchIL, Fold, OverrideCheck,
\* Merge, DereferenceForDisplay, Done.
StatementOrder ==
    <<"init_plugin", "select", "set_doc_url", "set_function", "set_arch", "fetch", "fold",
      "override", "instruction", "description", "llil", "mlil", "flags", "state", "show">>
PcRank(label) ==
    IF label = "idle" THEN 0
    ELSE CHOOSE i \in 1..Len(StatementOrder) : StatementOrder[i] = label
Stages ==
    << {"init_plugin", "select", "set_doc_url", "set_function", "set_arch"},
       {"fetch"}, {"fold"}, {"override"},
       {"instruction", "instruction_failed", "description"},
       {"llil", "mlil"},
       {"flags", "state", "state_unavailable", "show"} >>
Entered(t, k) == hist[t].steps \cap Stages[k] # {}

\* The stages entered are a prefix of the pipeline; show() comes after the
\* description, llil, mlil and flags of the same invocation were written;
\* an invocation that is over ended in show() or in a failure.
C14_Order ==
    \A t \in Threads :
        /\ \A k \in 1..Len(Stages) : \A j \in 1..(k - 1) : Entered(t, k) => Entered(t, j)
        /\ (pc[t] = "show" \/ Reached(t, "show"))
              => /\ {"description", "llil", "mlil", "flags"} \subseteq hist[t].steps
                 /\ win.description = Some(Description(frame[t].should_supersede_llil,
                                                       frame[t].explanation_list,
                                                       frame[t].parse_il))
                 /\ win.llil = Some(Dereferenced(frame[t].llil_list))
                 /\ win.mlil = Some(Dereferenced(frame[t].mlil_list))
                 /\ win.flags = Some(FlagTriples(frame[t].lifted_il_list))
        /\ pc[t] # "idle" => hist[t].outcome = "running"
        /\ (pc[t] = "idle" /\ hist[t].outcome # "none")
              => /\ hist[t].outcome \in {"shown", "unsupported", "error"}
                 /\ hist[t].outcome = "shown" <=> Reached(t, "show")

\* A step of an invocation moves it to a later statement or ends it, and
\* executes a statement it had not executed; show() is called from the last
\* statement only.
C14_Advance ==
    \A t \in Threads :
        /\ pc'[t] # pc[t] => (pc'[t] = "idle" \/ PcRank(pc'[t]) > PcRank(pc[t]))
        /\ pc[t] # "idle"
              => /\ hist[t].steps \subseteq hist'[t].steps
                 /\ hist'[t].steps # hist[t].steps => pc[t] \notin hist[t].steps
        /\ ("show" \in hist'[t].steps /\ "show" \notin hist[t].steps)
              => (pc[t] = "show" /\ pc'[t] = "idle")

\* C14: every invocation goes through the stages in pipeline order, each
\* statement at most once and never back, and always ends, in show() or in a
\* failure; show() is called at most once and only after the description,
\* llil, mlil and flags of the invocation were written.
C14_Pipeline ==
    /\ []C14_Order
    /\ [][C14_Advance]_pc
    /\ \A t \in Threads : (pc[t] # "idle") ~> (pc[t] = "idle")

\* An invocation that entered every stage has returned after show().
C14_Witness ==
    \E t \in Threads :
        /\ pc[t] = "idle"
        /\ hist[t].outcome = "shown"
        /\ \A k \in 1..Len(Stages) : Entered(t, k)
        /\ hist[t].selected
        /\ win.visible

\* The architecture modules in the order init_plugin tests for them, each
\* with the substrings that select it.
Registry ==
    << [subs |-> {"x86"}, module |-> "x86"],
       [subs |-> {"mips"}, module |-> "mips"],
       [subs |-> {"aarch64"}, module |-> "aarch64"],
       [subs |-> {"arm", "thumb"}, module |-> "ual"],
       [subs |-> {"6502"}, module |-> "asm6502"],
       [subs |-> {"msp430"}, module |-> "msp430"],
       [subs |-> {"powerpc"}, module |-> "powerpc"] >>
Matches(name, k) == \E sub \in Registry[k].subs : Contains(sub, name)
Matching(name) == {k \in 1..Len(Registry) : Matches(name, k)}
FirstMatch(name) ==
    IF Matching(name) = {} THEN None
    ELSE Registry[CHOOSE k \in Matching(name) : \A j \in Matching(name) : k <= j].module

\* C15: whenever init_plugin selects, the module it takes is the first of
\* the registry, in the order x86, mips, aarch64, arm-or-thumb, 6502,
\* msp430, powerpc, with a substring in the architecture name, whatever name
\* and module were cached; it is that module's function and documentation
\* link that get installed; and with no substring in the name the
\* invocation fails as unsupported.
C15_Selection ==
    \A t \in Threads :
        Reached(t, "select")
            => LET first == FirstMatch(frame[t].name)
               IN /\ first = None <=> hist[t].outcome = "unsupported"
                  /\ first # None => frame[t].module = first
                  /\ Reached(t, "set_doc_url") => win.get_doc_url = Some(first)
                  /\ Reached(t, "set_function") => explain_fn = first

\* With another architecture's name and module cached, an invocation on a
\* name with two registered substrings has selected the module of the
\* earlier one in registry order.
C15_Witness ==
    \E t \in Threads :
        /\ Reached(t, "select")
        /\ ~Reached(t, "set_function")
        /\ \E j, k \in Matching(frame[t].name) : j < k /\ frame[t].module = Registry[j].module
        /\ arch # None
        /\ arch # frame[t].name
        /\ explain_fn \notin {Placeholder, frame[t].module}

\* No invocation is under way.
BetweenInvocations == \A t \in Threads : pc[t] = "idle"

\* C16 as stated: between invocations, after any sequence of invocations
\* that were shown or failed, the cached architecture name, the cached
\* override function and the window's documentation link are all the
\* initial ones or all those of the module of the cached name; and an
\* invocation that did not select called the function of its own
\* architecture's module.
C16_Original ==
    /\ BetweenInvocations
          => \/ /\ arch = None
                /\ explain_fn = Placeholder
                /\ win.get_doc_url = NoValue
             \/ /\ arch # None
                /\ SelectModule(arch) # None
                /\ explain_fn = SelectModule(arch)
                /\ win.get_doc_url = Some(SelectModule(arch))
    /\ \A t \in Threads :
          (Reached(t, "override") /\ ~hist[t].selected)
              => hist[t].called = SelectModule(frame[t].name)

\* C17: the function explain_instruction calls at line 66 is never the
\* initial placeholder, because init_plugin has installed a module's
\* function or raised before that line; so no description handed to the
\* window holds the placeholder's line.
C17_PlaceholderUnused ==
    /\ \A t \in Threads :
          /\ Reached(t, "fetch") => explain_fn # Placeholder
          /\ Reached(t, "override")
                => /\ hist[t].called # Placeholder
                   /\ \A i \in 1..Len(frame[t].explanation_list) :
                          frame[t].explanation_list[i].src # Placeholder
    /\ win.description # NoValue
          => \A i \in 1..Len(win.description[1]) : win.description[1][i].src # Placeholder

\* The first invocation of a session, which started with the placeholder
\* installed, has written a description that begins with the lines of its
\* architecture module's function.
C17_Witness ==
    \E t \in Threads :
        /\ calls = 1
        /\ hist[t].selected
        /\ Reached(t, "description")
        /\ Len(frame[t].explanation_list) > 0
        /\ hist[t].called = SelectModule(frame[t].name)
        /\ win.description[1][1].src = hist[t].called

====
